---- MODULE Spec2Model ----
\* Real-time chat delivery layer of apps/api/routers/chat.py:
\* ConnectionManager (registry + broadcast), websocket_endpoint (one task per
\* connection) and send_message (the REST path that persists and fans out).
\* Every `await` of the code is a step boundary: what runs between two awaits
\* of one task is atomic under the asyncio scheduler, and other tasks may run
\* at every await.
EXTENDS Integers, FiniteSets, Sequences, TLC

\* ---------------------------------------------------------------- bounds
NumChannels == 3      \* websocket connections that arrive in one run
NumCrowd == 5         \* the same, in a run of CrowdSpec (one crowded room)
NumRequests == 1      \* POST /chat/messages requests in one run
MaxEvents == 2        \* what clients do besides connecting, in one run: frames
                      \* sent, requests posted, connections dropped, attempts
                      \* that are refused

Channels == 1..NumCrowd
Requests == {100 + i : i \in 1..NumRequests}
Procs == Channels \cup Requests

\* ---------------------------------------------------------------- closure codes
WS_1003_UNSUPPORTED_DATA == 1003
WS_1008_POLICY_VIOLATION == 1008
WS_1011_INTERNAL_ERROR == 1011

\* ---------------------------------------------------------------- store (external collaborator)
None == 0
UserIds == {1, 2, 3}
\* users table: email -> id
UsersByEmail == [e \in {"a@x", "b@x", "c@x"} |->
                   IF e = "a@x" THEN 1 ELSE IF e = "b@x" THEN 2 ELSE 3]
EmailOf(u) == CHOOSE e \in DOMAIN UsersByEmail : UsersByEmail[e] = u
\* bookings table: id -> the two participants
BookingsTable == [b \in {1, 2} |->
                   IF b = 1 THEN [user_id |-> 1, guide_id |-> 2]
                            ELSE [user_id |-> 2, guide_id |-> 3]]
BookingIds == {1, 2, 3}     \* ids a client may name; 3 names no booking

\* a lookup that forgets its filter and returns the first user
get_user_by_email_first(email) == 1

get_user_by_email(email) ==
  IF email \in DOMAIN UsersByEmail THEN UsersByEmail[email] ELSE None

get_booking_by_id(b) ==
  IF b \in DOMAIN BookingsTable THEN <<BookingsTable[b]>> ELSE <<>>

\* ---------------------------------------------------------------- tokens
\* The token query parameter as the client sent it. "" stands for an absent
\* or empty parameter (both falsy).
Tokens == {"", "tok_bad", "tok_nosub", "tok_ghost", "tok_a", "tok_b"}

\* The connection attempts clients make: (token, booking_id).
ConnectInputs ==
  {<<"", 1>>, <<"tok_bad", 1>>, <<"tok_nosub", 1>>, <<"tok_ghost", 1>>,
   <<"tok_a", 1>>, <<"tok_b", 1>>, <<"tok_b", 2>>,   \* participants
   <<"tok_a", 2>>,                                   \* not a participant
   <<"tok_a", 3>>}                                   \* no such booking

\* jwt.decode: a JWTError (bad signature, expired, not a JWT) or the payload.
jwt_decode(token) ==
  CASE token = "tok_nosub" -> [ok |-> TRUE, sub |-> ""]
    [] token = "tok_ghost" -> [ok |-> TRUE, sub |-> "ghost@x"]
    [] token = "tok_a" -> [ok |-> TRUE, sub |-> "a@x"]
    [] token = "tok_b" -> [ok |-> TRUE, sub |-> "b@x"]
    [] OTHER -> [ok |-> FALSE, sub |-> ""]

\* verify_token: the TokenData email, or credentials_exception raised.
verify_token(token) ==
  LET payload == jwt_decode(token) IN
  IF ~payload.ok THEN [raised |-> TRUE, email |-> ""]
  ELSE IF payload.sub = "" THEN [raised |-> TRUE, email |-> ""]
  ELSE [raised |-> FALSE, email |-> payload.sub]

\* ---------------------------------------------------------------- inbound frames
\* What receive_text() is handed. kind: "binary" (a non-text frame),
\* "text" (not JSON), "array" (JSON that is not an object; stands for any
\* JSON array, string or number), "object" (a JSON object with its "type"
\* member, "" when absent, and its "is_typing" member).
Frames ==
  {[kind |-> "binary", type |-> "", is_typing |-> "absent"],
   [kind |-> "text", type |-> "", is_typing |-> "absent"],
   [kind |-> "array", type |-> "", is_typing |-> "absent"],
   [kind |-> "object", type |-> "ping", is_typing |-> "absent"],
   [kind |-> "object", type |-> "", is_typing |-> "absent"],
   [kind |-> "object", type |-> "message", is_typing |-> "absent"]}
  \cup {[kind |-> "object", type |-> "typing", is_typing |-> v] :
          v \in {"absent", "true"}}

\* message_data.get("is_typing", False)
get_is_typing(f) == IF f.is_typing = "absent" THEN "false" ELSE f.is_typing

\* a dispatch that relays a ping to the conversation as it does a typing frame
Dispatch_ping_relayed(f) ==
  CASE f.kind = "binary" -> "KeyError"
    [] f.kind = "text" -> "JSONDecodeError"
    [] f.kind = "array" -> "AttributeError"
    [] f.kind = "object" /\ f.type \in {"ping", "typing"} -> "typing"
    [] OTHER -> "ignored"

\* What the handler does with one frame: which exception the read and the
\* decode raise, or which branch of the dispatch is taken.
Dispatch(f) ==
  CASE f.kind = "binary" -> "KeyError"
    [] f.kind = "text" -> "JSONDecodeError"
    [] f.kind = "array" -> "AttributeError"
    [] f.kind = "object" /\ f.type = "ping" -> "ping"
    [] f.kind = "object" /\ f.type = "typing" -> "typing"
    [] OTHER -> "ignored"

\* ---------------------------------------------------------------- state
VARIABLES
  active_connections,  \* booking_id -> set of websockets; DOMAIN = the keys
  websocket_users,     \* websocket -> user_id; DOMAIN = the keys
  set_table,           \* booking_id -> hash table of its set object (fill, mask)
  ws,                  \* per connection: the handler task and the connection
  bc,                  \* per task: the send_to_booking call it is in / has just left
  rq,                  \* send_message requests
  messages,            \* messages table, in insertion order
  nevents              \* client events so far

vars == <<active_connections, websocket_users, set_table, ws, bc, rq, messages,
         nevents>>

\* One connection. pc: position of websocket_endpoint ("new": not arrived;
\* "confirm", "recv", "pong", "errframe", "typing": the await it is suspended
\* in; "loop": a frame was handled, about to call receive_text again;
\* "done": returned). token, booking_id: query and path parameter. user: the
\* local `user` (its id). alive: the connection is up, neither side has
\* closed or lost it. closeCode, closeReason: the close the server issued.
\* connected: the connected frame reached the client. data: the frame the
\* handler read last and is handling. reply: the frame sent back for it.
\* exitPath: "reject" (close and return) or the exception that ended the
\* handler. stalled: the peer has stopped reading and the transport's buffers
\* are full, so that a send_text to it stays suspended. accepted: the
\* handshake was accepted (`await websocket.accept()` in manager.connect).
NoFrame == [kind |-> "none", type |-> "", is_typing |-> "absent"]
NewWs == [pc |-> "new", token |-> "", booking_id |-> None, user |-> None,
          alive |-> FALSE, closeCode |-> 0, closeReason |-> "",
          connected |-> FALSE, data |-> NoFrame, reply |-> "", exitPath |-> "",
          stalled |-> FALSE, accepted |-> FALSE]

NoPayload == [type |-> "", user_id |-> None, user_name |-> "",
              is_typing |-> "absent", id |-> None]

\* Frame of a send_to_booking call. st: "idle" (no call), "sending"
\* (suspended in `await websocket.send_text` to cur), "returned", "raised".
\* orig is the channel set when the for-loop took its iterator; changed and
\* detached record what happened to that set object since. rebuilt: the
\* set's hash table was rebuilt under the iterator, whose position now
\* points into the new table; stale: that happened during the send in
\* progress, so cur was yielded from the old table.
NoBc == [st |-> "idle", booking |-> None, exclude |-> None,
         payload |-> NoPayload, orig |-> {}, visited |-> {},
         delivered |-> {}, nsent |-> 0, disconnected_websockets |-> {},
         cur |-> None, changed |-> FALSE, detached |-> FALSE,
         rebuilt |-> FALSE, stale |-> FALSE]

NoRq == [pc |-> "new", status |-> 0, detail |-> "", id |-> None]

Init ==
  /\ active_connections = <<>>
  /\ websocket_users = <<>>
  /\ set_table = <<>>
  /\ ws = [w \in Channels |-> NewWs]
  /\ bc = [p \in Procs |-> NoBc]
  /\ rq = [r \in Requests |-> NoRq]
  /\ messages = <<>>
  /\ nevents = 0

\* ---------------------------------------------------------------- registry
Restrict(f, S) == [x \in S |-> f[x]]

Room(ac, b) == IF b \in DOMAIN ac THEN ac[b] ELSE {}

\* a connect that adds the websocket to every room there is
connect_ac_every_room(ac, w, b) ==
  [x \in DOMAIN ac \cup {b} |-> IF x \in DOMAIN ac THEN ac[x] \cup {w} ELSE {w}]

\* ConnectionManager.connect, after `await websocket.accept()` has returned.
connect_ac(ac, w, b) ==
  LET ac1 == IF b \in DOMAIN ac THEN ac
             ELSE [x \in DOMAIN ac \cup {b} |-> IF x = b THEN {} ELSE ac[x]]
  IN [ac1 EXCEPT ![b] = @ \cup {w}]

connect_wu(wu, w, u) ==
  [x \in DOMAIN wu \cup {w} |-> IF x = w THEN u ELSE wu[x]]

\* The hash table of a set object (CPython): mask = slots - 1, fill = slots
\* in use, by members and by the dummies that discard() leaves behind. add()
\* of a new member takes an unused slot and rebuilds the table, without the
\* dummies, once fill * 5 >= mask * 3.
PySet_MINSIZE == 8
NewTable == [fill |-> 0, mask |-> PySet_MINSIZE - 1]

RECURSIVE set_table_size(_, _)
set_table_size(newsize, minused) ==
  IF newsize <= minused THEN set_table_size(2 * newsize, minused) ELSE newsize

\* self.active_connections[booking_id].add(websocket) rebuilds the table
set_add_resizes(tb, ac, b) ==
  LET t == IF b \in DOMAIN ac THEN tb[b] ELSE NewTable
  IN (t.fill + 1) * 5 >= t.mask * 3

\* the table of booking b's set after connect added a websocket to it
connect_tb(tb, ac, b) ==
  LET t == IF b \in DOMAIN ac THEN tb[b] ELSE NewTable
      used == Cardinality(Room(ac, b)) + 1
      t1 == IF set_add_resizes(tb, ac, b)
            THEN [fill |-> used,
                  mask |-> set_table_size(PySet_MINSIZE, used * 4) - 1]
            ELSE [fill |-> t.fill + 1, mask |-> t.mask]
  IN [x \in DOMAIN tb \cup {b} |-> IF x = b THEN t1 ELSE tb[x]]

\* disconnect: discard() leaves the table as it is; `del` of the key drops
\* the set object with its table
disconnect_tb(tb, acNew) == Restrict(tb, DOMAIN tb \cap DOMAIN acNew)

\* a disconnect that drops the whole room
disconnect_ac_room(ac, w, b) ==
  IF b \in DOMAIN ac THEN [x \in DOMAIN ac \ {b} |-> ac[x]] ELSE ac

\* a disconnect that discards the websocket and keeps the room's key
disconnect_ac_keep_key(ac, w, b) ==
  IF b \in DOMAIN ac THEN [ac EXCEPT ![b] = @ \ {w}] ELSE ac

\* ConnectionManager.disconnect
disconnect_ac(ac, w, b) ==
  IF b \in DOMAIN ac
  THEN LET s == ac[b] \ {w} IN
       IF s = {} THEN Restrict(ac, DOMAIN ac \ {b})
       ELSE [ac EXCEPT ![b] = s]
  ELSE ac

\* a disconnect that leaves the websocket_users entry behind
disconnect_wu_keep(wu, w) == wu

disconnect_wu(wu, w) ==
  IF w \in DOMAIN wu THEN Restrict(wu, DOMAIN wu \ {w}) ELSE wu

RECURSIVE disconnect_all_ac(_, _, _)
\* the cleanup loop of send_to_booking: disconnect() for each collected websocket
disconnect_all_ac(ac, S, b) ==
  IF S = {} THEN ac
  ELSE LET w == CHOOSE x \in S : TRUE
       IN disconnect_all_ac(disconnect_ac(ac, w, b), S \ {w}, b)

RECURSIVE disconnect_all_wu(_, _)
disconnect_all_wu(wu, S) ==
  IF S = {} THEN wu
  ELSE LET w == CHOOSE x \in S : TRUE
       IN disconnect_all_wu(disconnect_wu(wu, w), S \ {w})

Registered == UNION {active_connections[b] : b \in DOMAIN active_connections}

\* ---------------------------------------------------------------- broadcast
\* websocket.send_text(w) succeeds while the connection is up; otherwise it
\* raises.
Usable(w) == ws[w].alive

\* `await websocket.send_text` to w is resumed: the frame was written, or the
\* connection is gone and the send raises. No send carries a timeout, so a
\* send to a stalled peer whose connection is up stays suspended. (A peer
\* that reads again later is a send that completes later: any interleaving
\* of the other tasks before the resumption.)
SendCompletes(w) == ~ws[w].alive \/ ~ws[w].stalled

\* What a registry mutation does to the set objects that suspended
\* send_to_booking calls are iterating: the set of booking b was modified
\* (changed), or its key was deleted so that the iterator holds a set the
\* registry no longer knows (detached), or the table of a booking in rb was
\* rebuilt: the iterator goes on from its old position in the new table, so
\* that what it yielded before counts no more.
Notify(bcs, acOld, acNew, rb) ==
  [q \in Procs |->
     IF bcs[q].st = "sending"
     THEN LET hit == bcs[q].booking \in rb /\ ~bcs[q].detached IN
          [bcs[q] EXCEPT
             !.changed = @ \/ Room(acOld, bcs[q].booking) # Room(acNew, bcs[q].booking),
             !.detached = @ \/ bcs[q].booking \notin DOMAIN acNew,
             !.rebuilt = @ \/ hit,
             !.stale = @ \/ hit,
             !.visited = IF hit THEN {} ELSE @]
     ELSE bcs[q]]

\* an iteration that forgets the `websocket != exclude_websocket` test
Advance_no_exclude(it, ac) ==
  LET room == Room(ac, it.booking) IN
  IF it.detached \/ Cardinality(room) # Cardinality(it.orig)
  THEN {[it EXCEPT !.st = "raised", !.cur = None]}
  ELSE LET must == IF it.rebuilt THEN {} ELSE (it.orig \cap room) \ it.visited
           may == IF it.rebuilt THEN room \ it.visited
                  ELSE (room \ it.orig) \ it.visited
       IN {[it EXCEPT !.cur = t] : t \in must \cup may}
          \cup (IF must = {} THEN {[it EXCEPT !.st = "returned", !.cur = None]}
                ELSE {})

\* One `next()` of the for-loop over self.active_connections[booking_id],
\* together with the `websocket != exclude_websocket` test: the set of frames
\* the call can be in afterwards. The set iterator raises RuntimeError when
\* the set's size differs from the size at the start; with the size
\* unchanged it yields every original member not yet visited, and a member
\* added meanwhile is yielded or skipped depending on its slot in the table.
\* Once the table was rebuilt every member, yielded before or not, is
\* yielded or skipped depending on its slot in the new table.
Advance(it, ac) ==
  LET room == Room(ac, it.booking) IN
  IF it.detached \/ Cardinality(room) # Cardinality(it.orig)
  THEN {[it EXCEPT !.st = "raised", !.cur = None]}
  ELSE LET must == IF it.rebuilt THEN {}
                   ELSE ((it.orig \cap room) \ it.visited) \ {it.exclude}
           may == IF it.rebuilt THEN (room \ it.visited) \ {it.exclude}
                  ELSE ((room \ it.orig) \ it.visited) \ {it.exclude}
       IN {[it EXCEPT !.cur = t] : t \in must \cup may}
          \cup (IF must = {} THEN {[it EXCEPT !.st = "returned", !.cur = None]}
                ELSE {})

\* send_to_booking(message, booking_id, exclude_websocket) up to its first
\* await, or to its return when nothing is to be sent.
send_to_booking(m, b, x, ac) ==
  IF b \in DOMAIN ac
  THEN Advance([NoBc EXCEPT !.st = "sending", !.booking = b, !.exclude = x,
                            !.payload = m, !.orig = ac[b]], ac)
  ELSE {[NoBc EXCEPT !.st = "returned", !.booking = b, !.exclude = x,
                     !.payload = m]}

\* The frame after `await websocket.send_text(message)` to it.cur completed:
\* delivered, or the exception caught and the websocket collected.
AfterSend(it) ==
  LET seen == IF it.stale THEN it.visited ELSE it.visited \cup {it.cur} IN
  IF Usable(it.cur)
  THEN [it EXCEPT !.visited = seen, !.stale = FALSE,
                  !.delivered = @ \cup {it.cur}, !.nsent = @ + 1]
  ELSE [it EXCEPT !.visited = seen, !.stale = FALSE,
                  !.disconnected_websockets = @ \cup {it.cur}]

UserName(u) == EmailOf(u)   \* users carry no first/last name: `or user.email`

TypingPayload(u, f) ==
  [type |-> "typing", user_id |-> u, user_name |-> UserName(u),
   is_typing |-> get_is_typing(f), id |-> None]

NewMessagePayload(msg) ==
  [type |-> "new_message", user_id |-> msg.sender_id,
   user_name |-> UserName(msg.sender_id), is_typing |-> "absent", id |-> msg.id]

\* ---------------------------------------------------------------- websocket_endpoint
\* an admission that forgets the participant test
Admission_no_participant_test(t, b) ==
  LET token_data == verify_token(t)
      u == get_user_by_email(token_data.email)
      booking == get_booking_by_id(b)
      No(path, code, reason) ==
        [ok |-> FALSE, path |-> path, code |-> code, reason |-> reason, user |-> None]
  IN IF t = ""
     THEN No("reject", WS_1008_POLICY_VIOLATION, "Authentication required")
     ELSE IF token_data.raised
     THEN No("HTTPException", WS_1011_INTERNAL_ERROR, "Server error")
     ELSE IF u = None
     THEN No("reject", WS_1008_POLICY_VIOLATION, "Invalid user")
     ELSE IF booking = <<>>
     THEN No("reject", WS_1003_UNSUPPORTED_DATA, "Booking not found")
     ELSE [ok |-> TRUE, path |-> "", code |-> 0, reason |-> "", user |-> u]

\* What the endpoint does with token t and booking id b before it reaches
\* manager.connect: the close it issues, the exception it raises, or the
\* user it goes on with.
Admission(t, b) ==
  LET token_data == verify_token(t)
      u == get_user_by_email(token_data.email)
      booking == get_booking_by_id(b)
      No(path, code, reason) ==
        [ok |-> FALSE, path |-> path, code |-> code, reason |-> reason, user |-> None]
  IN IF t = ""
     THEN No("reject", WS_1008_POLICY_VIOLATION, "Authentication required")
     ELSE IF token_data.raised
     THEN No("HTTPException", WS_1011_INTERNAL_ERROR, "Server error")
     ELSE IF u = None
     THEN No("reject", WS_1008_POLICY_VIOLATION, "Invalid user")
     ELSE IF booking = <<>>
     THEN No("reject", WS_1003_UNSUPPORTED_DATA, "Booking not found")
     ELSE IF u \notin {booking[1].user_id, booking[1].guide_id}
     THEN No("reject", WS_1008_POLICY_VIOLATION, "Access denied")
     ELSE [ok |-> TRUE, path |-> "", code |-> 0, reason |-> "", user |-> u]

Rejected == {w \in Channels : ws[w].exitPath \in {"reject", "HTTPException"}}

\* The exceptions that reach `except Exception` of websocket_endpoint after
\* the channel was registered. SendError stands for whatever a failed send
\* raises other than WebSocketDisconnect.
LoopExceptions == {"KeyError", "AttributeError", "SendError", "RuntimeError"}

\* `except Exception as e`: the handler is suspended in
\* `await websocket.close(code=1011)`. Nothing is unregistered on this path.
Faulted(c, e) == [c EXCEPT !.pc = "closing", !.exitPath = e, !.reply = ""]

\* `except WebSocketDisconnect`, after manager.disconnect: the handler has
\* returned and its locals are gone.
Left(c) ==
  [NewWs EXCEPT !.pc = "done", !.exitPath = "WebSocketDisconnect",
                !.token = c.token, !.booking_id = c.booking_id,
                !.connected = c.connected, !.accepted = c.accepted]

\* The endpoint is entered for connection w with token t and booking id b and
\* runs to a rejection (close and return), to the outer exception handler, or
\* through manager.connect (the accept of the handshake, then the two
\* registry entries) to the await of the connected frame's send. Nothing of
\* the registry is read or written before the accept returns, so the accept
\* is taken in the same step.
Arrive(w, t, b) ==
  /\ ws[w].pc = "new"
  /\ \A v \in Channels : v < w => ws[v].pc # "new"   \* numbered as they arrive
  /\ LET a == Admission(t, b) IN
     IF a.ok
     THEN /\ active_connections' = connect_ac(active_connections, w, b)
          /\ websocket_users' = connect_wu(websocket_users, w, a.user)
          /\ set_table' = connect_tb(set_table, active_connections, b)
          /\ bc' = Notify(bc, active_connections, active_connections',
                          IF set_add_resizes(set_table, active_connections, b)
                          THEN {b} ELSE {})
          /\ ws' = [ws EXCEPT ![w] = [NewWs EXCEPT !.pc = "confirm", !.token = t,
                                        !.booking_id = b, !.user = a.user,
                                        !.alive = TRUE, !.accepted = TRUE]]
          /\ UNCHANGED nevents
     ELSE /\ nevents < MaxEvents
          /\ nevents' = nevents + 1
          /\ ws' = [ws EXCEPT ![w] = [NewWs EXCEPT !.pc = "done", !.token = t,
                                        !.booking_id = b, !.closeCode = a.code,
                                        !.closeReason = a.reason,
                                        !.exitPath = a.path]]
          /\ UNCHANGED <<active_connections, websocket_users, set_table, bc>>
  /\ UNCHANGED <<rq, messages>>

\* `await websocket.send_text(connected)` completes. It is outside the inner
\* try: whatever it raises goes to `except Exception`.
Confirm(w) ==
  /\ ws[w].pc = "confirm"
  /\ SendCompletes(w)
  /\ ws' = [ws EXCEPT ![w] =
              IF Usable(w) THEN [@ EXCEPT !.connected = TRUE, !.pc = "recv"]
              ELSE Faulted(@, "SendError")]
  /\ UNCHANGED <<active_connections, websocket_users, set_table, bc, rq, messages,
                 nevents>>

\* The client goes away (close handshake or network drop).
ClientClose(w) ==
  /\ ws[w].pc \notin {"new", "done"}
  /\ ws[w].alive
  /\ nevents < MaxEvents
  /\ nevents' = nevents + 1
  /\ ws' = [ws EXCEPT ![w].alive = FALSE]
  /\ UNCHANGED <<active_connections, websocket_users, set_table, bc, rq, messages>>

\* The client stops reading while its connection stays up.
ClientStall(w) ==
  /\ ws[w].pc \notin {"new", "done"}
  /\ ws[w].alive
  /\ ~ws[w].stalled
  /\ nevents < MaxEvents
  /\ nevents' = nevents + 1
  /\ ws' = [ws EXCEPT ![w].stalled = TRUE]
  /\ UNCHANGED <<active_connections, websocket_users, set_table, bc, rq, messages>>

\* `await websocket.receive_text()` raises WebSocketDisconnect:
\* manager.disconnect(websocket, booking_id) and the handler returns.
ReceiveDisconnect(w) ==
  /\ ws[w].pc = "recv"
  /\ ~ws[w].alive
  /\ active_connections' = disconnect_ac(active_connections, w, ws[w].booking_id)
  /\ websocket_users' = disconnect_wu(websocket_users, w)
  /\ set_table' = disconnect_tb(set_table, active_connections')
  /\ ws' = [ws EXCEPT ![w] = Left(@)]
  /\ bc' = Notify(bc, active_connections, active_connections', {})
  /\ UNCHANGED <<rq, messages, nevents>>

\* a handler that leaves the typing broadcast to run by itself and reads on
Receive_spawning(w, f) ==
  /\ ws[w].pc = "recv"
  /\ nevents < MaxEvents
  /\ nevents' = nevents + 1
  /\ LET d == Dispatch(f) IN
     CASE d \in {"KeyError", "AttributeError"} ->
            /\ ws' = [ws EXCEPT ![w] = Faulted([@ EXCEPT !.data = f], d)]
            /\ UNCHANGED bc
       [] d = "JSONDecodeError" ->
            /\ ws' = [ws EXCEPT ![w] = [@ EXCEPT !.pc = "errframe", !.data = f]]
            /\ UNCHANGED bc
       [] d = "ping" ->
            /\ ws' = [ws EXCEPT ![w] = [@ EXCEPT !.pc = "pong", !.data = f]]
            /\ UNCHANGED bc
       [] d = "typing" ->
            \E n \in send_to_booking(TypingPayload(ws[w].user, f),
                                     ws[w].booking_id, w, active_connections) :
              /\ bc' = [bc EXCEPT ![w] = n]
              /\ ws' = [ws EXCEPT ![w] =
                          [@ EXCEPT !.data = f,
                                    !.pc = IF n.st = "sending" THEN "recv"
                                           ELSE "loop"]]
       [] OTHER ->
            /\ ws' = [ws EXCEPT ![w] = [@ EXCEPT !.pc = "loop", !.data = f]]
            /\ UNCHANGED bc
  /\ UNCHANGED <<active_connections, websocket_users, set_table, rq, messages>>

\* `await websocket.receive_text()` is handed frame f; the handler runs to
\* its next await.
Receive(w, f) ==
  /\ ws[w].pc = "recv"
  /\ nevents < MaxEvents
  /\ nevents' = nevents + 1
  /\ LET d == Dispatch(f) IN
     CASE d \in {"KeyError", "AttributeError"} ->
            /\ ws' = [ws EXCEPT ![w] = Faulted([@ EXCEPT !.data = f], d)]
            /\ UNCHANGED bc
       [] d = "JSONDecodeError" ->
            /\ ws' = [ws EXCEPT ![w] = [@ EXCEPT !.pc = "errframe", !.data = f]]
            /\ UNCHANGED bc
       [] d = "ping" ->
            /\ ws' = [ws EXCEPT ![w] = [@ EXCEPT !.pc = "pong", !.data = f]]
            /\ UNCHANGED bc
       [] d = "typing" ->
            \E n \in send_to_booking(TypingPayload(ws[w].user, f),
                                     ws[w].booking_id, w, active_connections) :
              /\ bc' = [bc EXCEPT ![w] = n]
              /\ ws' = [ws EXCEPT ![w] =
                          [@ EXCEPT !.data = f,
                                    !.pc = IF n.st = "sending" THEN "typing"
                                           ELSE "loop"]]
       [] OTHER ->
            /\ ws' = [ws EXCEPT ![w] = [@ EXCEPT !.pc = "loop", !.data = f]]
            /\ UNCHANGED bc
  /\ UNCHANGED <<active_connections, websocket_users, set_table, rq, messages>>

\* The send of a pong or error frame completes. A failed send raises
\* WebSocketDisconnect or another exception, depending on the server stack.
ReplyDone(w) ==
  /\ ws[w].pc \in {"pong", "errframe"}
  /\ SendCompletes(w)
  /\ IF Usable(w)
     THEN /\ ws' = [ws EXCEPT ![w] =
                      [@ EXCEPT !.reply = IF ws[w].pc = "pong" THEN "pong" ELSE "error",
                                !.pc = "loop"]]
          /\ UNCHANGED <<active_connections, websocket_users, set_table, bc>>
     ELSE \/ /\ active_connections' =
                  disconnect_ac(active_connections, w, ws[w].booking_id)
             /\ websocket_users' = disconnect_wu(websocket_users, w)
             /\ set_table' = disconnect_tb(set_table, active_connections')
             /\ ws' = [ws EXCEPT ![w] = Left(@)]
             /\ bc' = Notify(bc, active_connections, active_connections', {})
          \/ /\ ws' = [ws EXCEPT ![w] = Faulted(@, "SendError")]
             /\ UNCHANGED <<active_connections, websocket_users, set_table, bc>>
  /\ UNCHANGED <<rq, messages, nevents>>

\* The handling of a frame is over: the handler is back at the top of
\* `while True` and suspends in receive_text; the locals of the last
\* iteration are dead.
Loop(w) ==
  /\ ws[w].pc = "loop"
  /\ ws' = [ws EXCEPT ![w] = [@ EXCEPT !.pc = "recv", !.reply = "",
                                        !.data = NoFrame]]
  /\ bc' = [bc EXCEPT ![w] = NoBc]
  /\ UNCHANGED <<active_connections, websocket_users, set_table, rq, messages, nevents>>

\* `await websocket.close(code=1011, reason="Server error")` completes and
\* the handler returns; its locals are gone. On a connection that is gone
\* already the call returns or raises, depending on the server stack; what
\* it raises leaves the handler, and no close was issued.
CloseDone(w) ==
  /\ ws[w].pc = "closing"
  /\ \E issued \in IF Usable(w) THEN {TRUE} ELSE {TRUE, FALSE} :
       ws' = [ws EXCEPT ![w] =
                [NewWs EXCEPT !.pc = "done", !.exitPath = ws[w].exitPath,
                              !.token = ws[w].token,
                              !.booking_id = ws[w].booking_id,
                              !.connected = ws[w].connected,
                              !.accepted = ws[w].accepted,
                              !.closeCode = IF issued THEN WS_1011_INTERNAL_ERROR
                                            ELSE 0,
                              !.closeReason = IF issued THEN "Server error"
                                              ELSE ""]]
  /\ bc' = [bc EXCEPT ![w] = NoBc]
  /\ UNCHANGED <<active_connections, websocket_users, set_table, rq, messages, nevents>>

\* ---------------------------------------------------------------- send_to_booking, resumed
\* Task p is resumed from `await websocket.send_text` inside send_to_booking
\* and runs on to the next send (n.st = "sending"), to the cleanup loop and
\* the return (n.st = "returned"), or to the RuntimeError of the set
\* iterator (n.st = "raised"), which send_to_booking does not catch.
Resume(p, n) ==
  /\ bc[p].st = "sending"
  /\ SendCompletes(bc[p].cur)
  /\ n \in Advance(AfterSend(bc[p]), active_connections)
  /\ IF n.st = "returned"
     THEN /\ active_connections' =
               disconnect_all_ac(active_connections, n.disconnected_websockets, n.booking)
          /\ websocket_users' =
               disconnect_all_wu(websocket_users, n.disconnected_websockets)
          /\ set_table' = disconnect_tb(set_table, active_connections')
          /\ bc' = Notify([bc EXCEPT ![p] = n], active_connections,
                          active_connections', {})
     ELSE /\ bc' = [bc EXCEPT ![p] = n]
          /\ UNCHANGED <<active_connections, websocket_users, set_table>>

\* The typing broadcast of handler w goes on; on return the handler loops,
\* on RuntimeError it is in `except Exception`.
TypingResume(w) ==
  /\ ws[w].pc = "typing"
  /\ \E n \in Advance(AfterSend(bc[w]), active_connections) :
       /\ Resume(w, n)
       /\ ws' = [ws EXCEPT ![w] =
                   CASE n.st = "sending" -> @
                     [] n.st = "returned" -> [@ EXCEPT !.pc = "loop"]
                     [] OTHER -> Faulted(@, "RuntimeError")]
  /\ UNCHANGED <<rq, messages, nevents>>

\* ---------------------------------------------------------------- send_message
\* a create_message that validates nothing
create_message_unchecked(sender_id, b, recipient_id) == ""

\* crud.create_message: the ValueError it raises, or "" when the message is
\* committed.
create_message(sender_id, b, recipient_id) ==
  LET booking == get_booking_by_id(b) IN
  IF booking = <<>> THEN "Booking not found"
  ELSE IF sender_id \notin {booking[1].user_id, booking[1].guide_id}
  THEN "Access denied. You can only send messages in your own bookings"
  ELSE IF recipient_id = sender_id THEN "Cannot send message to yourself"
  ELSE IF recipient_id \notin {booking[1].user_id, booking[1].guide_id}
  THEN "Recipient must be involved in this booking"
  ELSE ""

\* crud.get_messages_for_booking on store db: the ValueError it raises, or
\* the booking's messages in creation order.
get_messages_for_booking(db, b, user_id) ==
  LET booking == get_booking_by_id(b)
      OfBooking(m) == m.booking_id = b
  IN IF booking = <<>> THEN [error |-> "Booking not found", rows |-> <<>>]
     ELSE IF user_id \notin {booking[1].user_id, booking[1].guide_id}
     THEN [error |-> "Access denied. You can only view messages from your own bookings",
           rows |-> <<>>]
     ELSE [error |-> "", rows |-> SelectSeq(db, OfBooking)]

\* The requests clients make: (current_user, booking_id, recipient_id).
RequestInputs ==
  {<<1, 1, 2>>, <<2, 2, 3>>,     \* valid: tourist of booking 1, tourist of booking 2
   <<1, 3, 2>>,                  \* no such booking
   <<3, 1, 2>>,                  \* sender not in the booking
   <<1, 1, 1>>,                  \* recipient is the sender
   <<1, 1, 3>>}                  \* recipient not in the booking

\* POST /chat/messages by current_user sender for booking b and recipient:
\* create_message, then send_to_booking without exclusion up to its first
\* await.
SendMessage(r, sender, b, recipient) ==
  /\ rq[r].pc = "new"
  /\ \A q \in Requests : q < r => rq[q].pc # "new"   \* numbered as they arrive
  /\ nevents < MaxEvents
  /\ nevents' = nevents + 1
  /\ LET err == create_message(sender, b, recipient)
         db_message == [id |-> Len(messages) + 1, booking_id |-> b,
                        sender_id |-> sender, recipient_id |-> recipient]
     IN IF err # ""
        THEN /\ rq' = [rq EXCEPT ![r] = [pc |-> "respond", status |-> 400,
                                         detail |-> err, id |-> None]]
             /\ UNCHANGED <<messages, bc>>
        ELSE /\ messages' = Append(messages, db_message)
             /\ \E n \in send_to_booking(NewMessagePayload(db_message), b, None,
                                         active_connections) :
                  /\ bc' = [bc EXCEPT ![r] = n]
                  /\ rq' = [rq EXCEPT ![r] =
                              IF n.st = "sending"
                              THEN [pc |-> "bcast", status |-> 0, detail |-> "",
                                    id |-> db_message.id]
                              ELSE [pc |-> "respond", status |-> 201, detail |-> "",
                                    id |-> db_message.id]]
  /\ UNCHANGED <<active_connections, websocket_users, set_table, ws>>

\* The new-message broadcast of request r goes on; on return the request
\* answers 201 with the message, on RuntimeError (not a ValueError) the
\* framework answers 500.
BroadcastResume(r) ==
  /\ rq[r].pc = "bcast"
  /\ \E n \in Advance(AfterSend(bc[r]), active_connections) :
       /\ Resume(r, n)
       /\ rq' = [rq EXCEPT ![r] =
                   CASE n.st = "sending" -> @
                     [] n.st = "returned" -> [@ EXCEPT !.pc = "respond", !.status = 201]
                     [] OTHER -> [@ EXCEPT !.pc = "respond", !.status = 500,
                                           !.detail = "Internal Server Error"]]
  /\ UNCHANGED <<ws, messages, nevents>>

\* The response of request r is written out; the call frame is gone.
Respond(r) ==
  /\ rq[r].pc = "respond"
  /\ rq' = [rq EXCEPT ![r].pc = "done"]
  /\ bc' = [bc EXCEPT ![r] = NoBc]
  /\ UNCHANGED <<active_connections, websocket_users, set_table, ws, messages, nevents>>

\* ---------------------------------------------------------------- specification
Next ==
  \/ \E w \in 1..NumChannels, i \in ConnectInputs : Arrive(w, i[1], i[2])
  \/ \E w \in Channels : Confirm(w)
  \/ \E w \in Channels : ClientClose(w)
  \/ \E w \in Channels : ClientStall(w)
  \/ \E w \in Channels : ReceiveDisconnect(w)
  \/ \E w \in Channels, f \in Frames : Receive(w, f)
  \/ \E w \in Channels : ReplyDone(w)
  \/ \E w \in Channels : Loop(w)
  \/ \E w \in Channels : CloseDone(w)
  \/ \E w \in Channels : TypingResume(w)
  \/ \E r \in Requests, i \in RequestInputs : SendMessage(r, i[1], i[2], i[3])
  \/ \E r \in Requests : BroadcastResume(r)
  \/ \E r \in Requests : Respond(r)

Spec == Init /\ [][Next]_vars

\* The event loop runs every task that is ready: a handler or a request whose
\* await can be resumed is resumed. Nothing obliges a client to connect, to
\* send, to stall or to go away.
Fairness ==
  /\ \A w \in Channels :
       /\ WF_vars(Confirm(w))
       /\ WF_vars(ReceiveDisconnect(w))
       /\ WF_vars(ReplyDone(w))
       /\ WF_vars(Loop(w))
       /\ WF_vars(CloseDone(w))
       /\ WF_vars(TypingResume(w))
  /\ \A r \in Requests :
       /\ WF_vars(BroadcastResume(r))
       /\ WF_vars(Respond(r))

FairSpec == Spec /\ Fairness

\* One crowded conversation: the tourist of booking 1 connects from up to
\* NumCrowd clients, which come and go, and posts a message.
CrowdNext ==
  \/ \E w \in Channels : Arrive(w, "tok_a", 1)
  \/ \E w \in Channels : Confirm(w)
  \/ \E w \in Channels : ClientClose(w)
  \/ \E w \in Channels : ReceiveDisconnect(w)
  \/ \E r \in Requests : SendMessage(r, 1, 1, 2)
  \/ \E r \in Requests : BroadcastResume(r)
  \/ \E r \in Requests : Respond(r)

CrowdSpec == Init /\ [][CrowdNext]_vars

TypeOK ==
  /\ DOMAIN active_connections \subseteq BookingIds
  /\ \A b \in DOMAIN active_connections : active_connections[b] \subseteq Channels
  /\ DOMAIN websocket_users \subseteq Channels
  /\ DOMAIN set_table = DOMAIN active_connections
  /\ \A b \in DOMAIN set_table :
       set_table[b].fill >= Cardinality(active_connections[b])

\* ---------------------------------------------------------------- properties
\* A send_to_booking call that has ended (returned or raised) and whose frame
\* is still there.
Ended(p) == bc[p].st \in {"returned", "raised"}

\* Channels that were registered for the call's conversation when it started
\* and still are, and whose connection is up: they were registered and
\* reachable during the whole call.
StayedLive(p) ==
  {q \in bc[p].orig \cap Room(active_connections, bc[p].booking) : ws[q].alive}

\* C1: a send_to_booking call during which the registry of its conversation
\* did not change and no send failed has, when it returns, delivered the
\* payload exactly once to each channel registered for the conversation
\* except the excluded one (none excluded: to each), and to no channel of
\* another conversation.
C1_CleanBroadcastDelivers ==
  [][\A p \in Procs :
       (/\ bc[p].st # "returned"
        /\ bc'[p].st = "returned"
        /\ ~bc'[p].changed
        /\ bc'[p].disconnected_websockets = {})
       => LET b == bc'[p].booking
              targets == Room(active_connections', b) \ {bc'[p].exclude}
          IN /\ bc'[p].delivered = targets
             /\ bc'[p].nsent = Cardinality(targets)
             /\ \A b2 \in DOMAIN active_connections' \ {b} :
                  bc'[p].delivered \cap active_connections'[b2] = {}]_vars

\* A request's broadcast without exclusion has delivered to two channels and
\* a handler's typing broadcast, excluding its own channel, to a peer, both
\* with no registry change and no send failure.
C1_Witness ==
  /\ \E r \in Requests :
       /\ bc[r].st = "returned" /\ ~bc[r].changed
       /\ bc[r].disconnected_websockets = {}
       /\ bc[r].exclude = None
       /\ Cardinality(bc[r].delivered) >= 2
  /\ \E w \in Channels :
       /\ bc[w].st = "returned" /\ ~bc[w].changed
       /\ bc[w].disconnected_websockets = {}
       /\ bc[w].exclude = w
       /\ w \in bc[w].orig
       /\ bc[w].delivered # {}

\* C2: when a send fails during send_to_booking, every other non-excluded
\* channel of the conversation (registered and reachable during the whole
\* call) has received the payload when the call ends, and the failing channel
\* is then in neither active_connections[C] nor websocket_users.
C2_FailureIsolated ==
  \A p \in Procs :
    (Ended(p) /\ bc[p].disconnected_websockets # {})
    => /\ StayedLive(p) \ {bc[p].exclude} \subseteq bc[p].delivered
       /\ bc[p].disconnected_websockets
            \cap Room(active_connections, bc[p].booking) = {}
       /\ bc[p].disconnected_websockets \cap DOMAIN websocket_users = {}

\* C3: a broadcast in which a send failed does not raise to its caller: the
\* typing handler goes on with its loop, its channel still registered while
\* its connection is up, and send_message answers 201 with the message it
\* created.
C3_FailureNotRaised ==
  /\ \A w \in Channels :
       (Ended(w) /\ bc[w].disconnected_websockets # {})
       => /\ ws[w].pc = "loop"
          /\ ws[w].alive => w \in Registered
  /\ \A r \in Requests :
       (Ended(r) /\ bc[r].disconnected_websockets # {})
       => /\ rq[r].status = 201
          /\ \E i \in 1..Len(messages) : messages[i].id = rq[r].id

\* The four credentials the endpoint must refuse.
BadCredential(t) ==
  \/ t = ""                                             \* missing
  \/ ~jwt_decode(t).ok                                  \* undecodable
  \/ jwt_decode(t).ok /\ jwt_decode(t).sub = ""         \* no subject
  \/ jwt_decode(t).ok /\ jwt_decode(t).sub \notin DOMAIN UsersByEmail  \* no user

\* C4: a connection attempt whose token is missing, undecodable, without a
\* subject or of no user is in no set of active_connections, has no
\* websocket_users entry, was sent no connected frame, and its handler has
\* returned.
C4_BadCredentialNeverRegistered ==
  \A w \in Channels :
    (ws[w].pc # "new" /\ BadCredential(ws[w].token))
    => /\ w \notin Registered
       /\ w \notin DOMAIN websocket_users
       /\ ~ws[w].connected
       /\ ws[w].pc = "done"

\* An attempt with the token of no user was refused while a participant is
\* registered.
C4_Witness ==
  /\ \E w \in Channels : ws[w].pc = "done" /\ ws[w].token = "tok_ghost"
  /\ \E w \in Channels : ws[w].token = "tok_a" /\ w \in Registered

\* A good credential for a booking that does not exist or that the user is
\* no participant of.
NotAllowed(t, b) ==
  /\ ~BadCredential(t)
  /\ \/ b \notin DOMAIN BookingsTable
     \/ UsersByEmail[jwt_decode(t).sub]
          \notin {BookingsTable[b].user_id, BookingsTable[b].guide_id}

\* C5: an attempt for a booking that does not exist, or by a user who is
\* neither booking.user_id nor booking.guide_id, is closed as it arrives,
\* leaves active_connections and websocket_users as they were, and is never
\* registered afterwards.
C5_NonParticipantRefused ==
  [][\A w \in Channels :
       (ws'[w].pc # "new" /\ NotAllowed(ws'[w].token, ws'[w].booking_id))
       => /\ w \notin UNION {active_connections'[b] : b \in DOMAIN active_connections'}
          /\ w \notin DOMAIN websocket_users'
          /\ ~ws'[w].connected
          /\ ws'[w].pc = "done"
          /\ ws'[w].closeCode # 0
          /\ ws[w].pc = "new" => UNCHANGED <<active_connections, websocket_users>>]_vars

\* A non-participant and an attempt for a missing booking were refused while
\* a participant is registered.
C5_Witness ==
  /\ \E w \in Channels :
       ws[w].pc = "done" /\ ws[w].token = "tok_a" /\ ws[w].booking_id = 2
  /\ \E w \in Channels :
       ws[w].pc = "done" /\ ws[w].token = "tok_a" /\ ws[w].booking_id = 3
  /\ \E w \in Channels : ws[w].token = "tok_b" /\ w \in Registered

\* C6: a handler that registered its channel and has returned, whichever way,
\* has left its channel in neither active_connections nor websocket_users.
C6_UnregisteredOnEveryExit ==
  \A w \in Channels :
    (ws[w].pc = "done" /\ ws[w].exitPath \notin {"reject", "HTTPException"})
    => w \notin Registered /\ w \notin DOMAIN websocket_users

\* C7: a handler ended by an unexpected exception in its inbound loop has
\* closed the connection with 1011 and its channel is unregistered.
C7_FaultClosesAndUnregisters ==
  \A w \in Channels :
    (ws[w].pc = "done" /\ ws[w].connected /\ ws[w].exitPath \in LoopExceptions)
    => /\ ws[w].closeCode = WS_1011_INTERNAL_ERROR
       /\ w \notin Registered
       /\ w \notin DOMAIN websocket_users

\* C8: when receive_text raises WebSocketDisconnect the handler removes its
\* own channel from its room and from websocket_users and nothing else: every
\* other channel's membership and user entry are as before.
C8_DisconnectRemovesOnlyItself ==
  [][\A w \in Channels :
       (ws[w].pc = "recv" /\ ws'[w].pc = "done")
       => /\ \A b \in BookingIds :
               Room(active_connections', b) = Room(active_connections, b) \ {w}
          /\ DOMAIN websocket_users' = DOMAIN websocket_users \ {w}
          /\ \A x \in DOMAIN websocket_users' :
               websocket_users'[x] = websocket_users[x]]_vars

\* A client closed (the only event so far), its handler left through
\* WebSocketDisconnect and a peer of the same conversation is still
\* registered.
C8_Witness ==
  /\ nevents = 1
  /\ \E w, x \in Channels :
       /\ w # x
       /\ ws[w].pc = "done" /\ ws[w].exitPath = "WebSocketDisconnect"
       /\ w \notin Registered /\ w \notin DOMAIN websocket_users
       /\ ws[x].booking_id = ws[w].booking_id
       /\ x \in Room(active_connections, ws[w].booking_id)
       /\ x \in DOMAIN websocket_users

\* C9: a handler that read a frame that is not JSON, or JSON that is no
\* record, and whose connection is up, is sending the error frame or has sent
\* it and loops; the connection is not closed and the channel stays
\* registered.
C9_UndecodableFrameAnswered ==
  \A w \in Channels :
    (ws[w].data.kind \in {"text", "array"} /\ ws[w].alive)
    => /\ ws[w].pc \in {"errframe", "loop"}
       /\ ws[w].pc = "loop" => ws[w].reply = "error"
       /\ ws[w].closeCode = 0
       /\ w \in Registered

\* C10: when the typing broadcast of channel X has ended, its payload carries
\* X's user and the frame's is_typing (false when absent), X itself and the
\* channels of other conversations did not receive it, and every other
\* channel of the conversation (registered and reachable during the whole
\* call) did.
C10_TypingReachesPeers ==
  \A w \in Channels :
    (Ended(w) /\ bc[w].payload.type = "typing")
    => /\ bc[w].payload.user_id = ws[w].user
       /\ bc[w].payload.is_typing = get_is_typing(ws[w].data)
       /\ w \notin bc[w].delivered
       /\ \A b2 \in DOMAIN active_connections \ {bc[w].booking} :
            bc[w].delivered \cap active_connections[b2] = {}
       /\ StayedLive(w) \ {w} \subseteq bc[w].delivered

\* C11: while a send_to_booking call is inside its iteration over the channel
\* set of conversation C (suspended in a send), no connect or disconnect has
\* changed that set or removed C's key: mutation and iteration exclude each
\* other.
C11_NoMutationDuringIteration ==
  \A p \in Procs :
    bc[p].st = "sending" => ~bc[p].changed /\ ~bc[p].detached

\* C12: a send_to_booking call suspended in a send does not stay there: it
\* ends, also when the peer of that send is stalled and the send never
\* completes.
C12_StalledPeerDoesNotBlock ==
  \A p \in Procs : (bc[p].st = "sending") ~> Ended(p)

\* C13: in every registry the program reaches, disconnect(w, b) for a channel
\* w that is in no room and has no websocket_users entry leaves both maps as
\* they are, whatever b is; and for every channel, disconnect applied twice
\* gives what disconnect applied once gives.
C13_DisconnectIdempotent ==
  \A w \in Channels, b \in BookingIds :
    LET ac1 == disconnect_ac(active_connections, w, b)
        wu1 == disconnect_wu(websocket_users, w)
    IN /\ (w \notin Registered /\ w \notin DOMAIN websocket_users)
            => ac1 = active_connections /\ wu1 = websocket_users
       /\ disconnect_ac(ac1, w, b) = ac1
       /\ disconnect_wu(wu1, w) = wu1

\* disconnect ran twice for one channel: the cleanup of a broadcast collected
\* it after a failed send and its own handler left through
\* WebSocketDisconnect, while other channels are registered.
C13_Witness ==
  /\ Registered # {}
  /\ \E p \in Procs, w \in Channels :
       /\ bc[p].st = "returned"
       /\ w \in bc[p].disconnected_websockets
       /\ ws[w].pc = "done" /\ ws[w].exitPath = "WebSocketDisconnect"
       /\ w \notin Registered /\ w \notin DOMAIN websocket_users

\* C14: no key of active_connections maps to an empty set: once the last
\* channel of a conversation is unregistered, by disconnect or by the cleanup
\* of a broadcast, its id is no key.
C14_NoEmptyRoom ==
  \A b \in DOMAIN active_connections : active_connections[b] # {}

\* The last channel of a conversation was removed by the cleanup of a
\* broadcast (which calls disconnect) and the conversation's id is no key any
\* more, while another conversation still has its key.
C14_Witness ==
  /\ DOMAIN active_connections # {}
  /\ \E p \in Procs :
       /\ bc[p].st = "returned"
       /\ bc[p].disconnected_websockets # {}
       /\ bc[p].orig = bc[p].disconnected_websockets
       /\ bc[p].booking \notin DOMAIN active_connections

\* C15: an attempt whose token is missing, undecodable (or expired) or
\* without a subject has been closed with the policy-violation code 1008.
C15_BadCredentialClosedWith1008 ==
  \A w \in Channels :
    (ws[w].pc = "done" /\ (ws[w].token = "" \/ verify_token(ws[w].token).raised))
    => ws[w].closeCode = WS_1008_POLICY_VIOLATION

\* Why an attempt with token t for booking b is refused, in the order the
\* endpoint tests: "" when it is not refused.
Cause(t, b) ==
  IF BadCredential(t) THEN "Unauthenticated"
  ELSE IF b \notin DOMAIN BookingsTable THEN "NotFound"
  ELSE IF NotAllowed(t, b) THEN "Unauthorized"
  ELSE ""

\* C16: every refused attempt was closed with a code, and two attempts
\* refused for different causes (Unauthenticated, Unauthorized, NotFound)
\* were closed with different codes.
C16_DistinctClosureCodes ==
  /\ \A w \in Channels :
       (ws[w].pc = "done" /\ Cause(ws[w].token, ws[w].booking_id) # "")
       => ws[w].closeCode # 0
  /\ \A w1, w2 \in Channels :
       (/\ ws[w1].pc = "done" /\ ws[w2].pc = "done"
        /\ Cause(ws[w1].token, ws[w1].booking_id) # ""
        /\ Cause(ws[w2].token, ws[w2].booking_id) # ""
        /\ Cause(ws[w1].token, ws[w1].booking_id)
             # Cause(ws[w2].token, ws[w2].booking_id))
       => ws[w1].closeCode # ws[w2].closeCode

\* C17: the new_message frame of a message is delivered to no channel of the
\* message's sender, and to every channel of the conversation owned by
\* another user (registered and reachable during the whole call) once the
\* broadcast has ended.
C17_SenderNotNotified ==
  \A r \in Requests :
    bc[r].payload.type = "new_message"
    => /\ \A w \in bc[r].delivered : ws[w].user # bc[r].payload.user_id
       /\ Ended(r) =>
            {w \in StayedLive(r) : ws[w].user # bc[r].payload.user_id}
              \subseteq bc[r].delivered

\* What create_message validates before it persists.
ValidMessage(m) ==
  /\ m.booking_id \in DOMAIN BookingsTable
  /\ m.sender_id \in {BookingsTable[m.booking_id].user_id,
                       BookingsTable[m.booking_id].guide_id}
  /\ m.recipient_id \in {BookingsTable[m.booking_id].user_id,
                          BookingsTable[m.booking_id].guide_id}
  /\ m.recipient_id # m.sender_id

\* C18: a new_message broadcast carries a message that is in the store and
\* was valid, for the message's booking, and reaches only channels connected
\* for that booking; a request answered 400 persisted nothing and broadcast
\* nothing; a channel handler broadcasts no new_message and only a
\* send_message request that is not refused adds to the store.
C18_OnlyPersistedMessagesFanOut ==
  [][/\ \A r \in Requests :
          bc'[r].st # "idle"
          => /\ bc'[r].payload.type = "new_message"
             /\ \E i \in 1..Len(messages') :
                  /\ messages'[i].id = bc'[r].payload.id
                  /\ messages'[i].booking_id = bc'[r].booking
                  /\ ValidMessage(messages'[i])
             /\ \A w \in bc'[r].delivered : ws'[w].booking_id = bc'[r].booking
     /\ \A r \in Requests :
          rq'[r].status = 400
          => /\ bc'[r].st = "idle"
             /\ rq[r].pc = "new" => messages' = messages
     /\ \A w \in Channels : bc'[w].payload.type # "new_message"
     /\ messages' # messages
          => \E r \in Requests :
               rq[r].pc = "new" /\ rq'[r].pc # "new" /\ rq'[r].status # 400]_vars

\* A persisted message was delivered to a channel of its booking, and a
\* handler that was sent a frame of type "message" persisted nothing.
C18_Witness ==
  /\ Len(messages) = 1
  /\ \E r \in Requests : bc[r].st = "returned" /\ bc[r].delivered # {}
  /\ \E w \in Channels : ws[w].data.type = "message" /\ ws[w].pc = "loop"

\* C19: in the broadcast of a persisted message no channel is sent the
\* new_message frame more than once, and whatever becomes of the broadcast
\* (it fails, it raises, it reaches no channel) the message is in the store
\* and the history fetch of its booking by its sender returns it.
C19_AtMostOncePersisted ==
  \A r \in Requests :
    /\ bc[r].payload.type = "new_message"
         => bc[r].nsent = Cardinality(bc[r].delivered)
    /\ rq[r].id # None
         => \E i \in 1..Len(messages) :
              /\ messages[i].id = rq[r].id
              /\ LET h == get_messages_for_booking(messages, messages[i].booking_id,
                                                   messages[i].sender_id)
                 IN h.error = "" /\ \E j \in 1..Len(h.rows) : h.rows[j].id = rq[r].id

\* C20: every connection attempt of a client that keeps reading ends
\* confirmed or closed: the connected frame was sent to it, or a close with a
\* code was issued for it, also when the close call fails; and no attempt
\* that the endpoint refused was sent the connected frame.
C20_AttemptEndsConfirmedOrClosed ==
  /\ \A w \in Channels :
       (ws[w].pc # "new")
         ~> (ws[w].connected \/ ws[w].closeCode # 0 \/ ws[w].stalled)
  /\ [](\A w \in Channels :
          ws[w].exitPath \in {"reject", "HTTPException"} => ~ws[w].connected)

\* C21: a participant may hold several channels of one conversation: when a
\* broadcast has ended, each of the participant's channels that was
\* registered and reachable during the whole call (the excluded one apart)
\* has received the payload, and once; and a handler that unregisters its
\* channel leaves the other channels of its user registered.
C21_ManyChannelsPerParticipant ==
  [][/\ \A p \in Procs, u \in UserIds :
          LET room == Room(active_connections', bc'[p].booking)
              mine == {w \in (bc'[p].orig \cap room) \ {bc'[p].exclude} :
                         ws'[w].alive /\ ws'[w].user = u}
          IN (bc'[p].st \in {"returned", "raised"} /\ Cardinality(mine) >= 2)
             => /\ mine \subseteq bc'[p].delivered
                /\ bc'[p].nsent = Cardinality(bc'[p].delivered)
     /\ \A w \in Channels :
          (ws[w].pc = "recv" /\ ws'[w].pc = "done")
          => \A x \in Room(active_connections, ws[w].booking_id) \ {w} :
               /\ x \in Room(active_connections', ws[w].booking_id)
               /\ x \in DOMAIN websocket_users'
               /\ websocket_users'[x] = websocket_users[x]]_vars

\* C22: a ping frame read on an open channel is answered with one pong frame
\* on that channel: reading it starts no broadcast and changes neither the
\* registry nor any other channel, and while the connection is up the send
\* that follows leaves a pong as the reply to that frame, again with no
\* broadcast and no change of the registry or of another channel.
C22_PingAnsweredWithPong ==
  [][\A w \in Channels :
       /\ (ws[w].pc = "recv" /\ ws'[w].pc # "recv"
           /\ ws'[w].data.kind = "object" /\ ws'[w].data.type = "ping")
          => /\ ws'[w].pc = "pong"
             /\ ws'[w].reply = ""
             /\ UNCHANGED <<active_connections, websocket_users, bc>>
             /\ \A x \in Channels \ {w} : ws'[x] = ws[x]
       /\ (ws[w].pc = "pong" /\ ws[w].alive /\ ws'[w].pc # "pong")
          => /\ ws'[w].pc = "loop"
             /\ ws'[w].reply = "pong"
             /\ ws'[w].closeCode = 0
             /\ UNCHANGED <<active_connections, websocket_users, bc>>
             /\ \A x \in Channels \ {w} : ws'[x] = ws[x]
       /\ ws'[w].pc = "pong" => bc'[w].st = "idle"]_vars

\* A ping was answered with a pong while a peer is registered for the same
\* conversation and no broadcast was started for it.
C22_Witness ==
  \E w, x \in Channels :
    /\ w # x
    /\ ws[w].pc = "loop" /\ ws[w].data.type = "ping" /\ ws[w].reply = "pong"
    /\ bc[w].st = "idle"
    /\ {w, x} \subseteq Room(active_connections, ws[w].booking_id)

\* C23: between any two steps of the tasks, the channels that are members of
\* some set of active_connections are exactly the keys of websocket_users:
\* connect adds the two entries and disconnect removes them as a pair.
C23_RegistryPaired ==
  Registered = DOMAIN websocket_users

\* The cleanup of a broadcast has unregistered, through disconnect, a channel
\* whose handler has not returned, and both of its entries are gone, while
\* another channel that connect registered still has both.
C23_Witness ==
  /\ Registered # {}
  /\ \E p \in Procs :
       /\ bc[p].st = "returned"
       /\ \E x \in bc[p].disconnected_websockets :
            /\ ws[x].pc # "done"
            /\ x \notin Registered /\ x \notin DOMAIN websocket_users

\* C24: every channel is a member of at most one conversation's set: the
\* sets of two different keys of active_connections share no channel.
C24_OneConversationPerChannel ==
  \A b1, b2 \in DOMAIN active_connections :
    b1 # b2 => active_connections[b1] \cap active_connections[b2] = {}

\* Two conversations have channels registered at once, one of them a channel
\* of a user who takes part in both.
C24_Witness ==
  /\ Cardinality(DOMAIN active_connections) >= 2
  /\ \E w, x \in Registered :
       /\ ws[w].booking_id # ws[x].booking_id
       /\ ws[w].user = ws[x].user

\* C25: the broadcast of a persisted message excludes no channel, and when
\* it has ended every channel that was registered for the message's booking
\* when it began (and stayed registered and reachable), the sender's own
\* channels included, has received the new_message frame.
C25_NewMessageReachesEveryChannel ==
  \A r \in Requests :
    bc[r].payload.type = "new_message"
    => /\ bc[r].exclude = None
       /\ Ended(r) => StayedLive(r) \subseteq bc[r].delivered

\* C26: one channel's frames are handled one after the other, in the order
\* they are read: a handler that waits for a frame has nothing of an earlier
\* frame under way (no reply to send, no typing broadcast suspended); while
\* it handles a frame it reads no other; the typing broadcast in flight
\* carries the frame read last, and the reply given is the reply to it.
C26_FramesHandledInOrder ==
  [][\A w \in Channels :
       /\ ws'[w].pc = "recv"
          => bc'[w].st = "idle" /\ ws'[w].reply = "" /\ ws'[w].data = NoFrame
       /\ ws[w].pc \in {"pong", "errframe", "typing", "loop"}
          => \/ ws'[w].data = ws[w].data
             \/ ws'[w].pc \in {"recv", "done"} /\ ws'[w].data = NoFrame
       /\ bc'[w].st = "sending"
          => /\ ws'[w].pc = "typing"
             /\ bc'[w].payload = TypingPayload(ws'[w].user, ws'[w].data)
       /\ ws'[w].reply = "pong" => ws'[w].data.type = "ping"
       /\ ws'[w].reply = "error" => ws'[w].data.kind = "text"]_vars

\* A channel has read two frames (the only events so far) and the typing
\* broadcast of the second is in flight to a peer, after the first was
\* handled to its end.
C26_Witness ==
  /\ nevents = 2
  /\ \A r \in Requests : rq[r].pc = "new"
  /\ \E w \in Channels :
       /\ ws[w].pc = "typing" /\ ws[w].alive /\ ~ws[w].stalled
       /\ bc[w].st = "sending" /\ bc[w].cur # w
       /\ \A y \in Channels \ {w} :
            \/ ws[y].pc = "new"
            \/ ws[y].pc = "confirm" /\ ws[y].alive /\ ~ws[y].stalled

\* C27: the handler accepts the handshake first, then authenticates and
\* authorises, then registers, then sends the connected frame, then reads:
\* every attempt whose credential was examined has had its handshake
\* accepted; a registered channel was authorised; the connected frame went
\* to a channel that was accepted and authorised; and a handler that has
\* read a frame had sent the connected frame.
C27_LifecycleOrder ==
  \A w \in Channels :
    /\ ws[w].pc # "new" => ws[w].accepted
    /\ w \in Registered => Admission(ws[w].token, ws[w].booking_id).ok
    /\ ws[w].connected
         => ws[w].accepted /\ Admission(ws[w].token, ws[w].booking_id).ok
    /\ ws[w].data # NoFrame => ws[w].connected

\* C28: every channel registered under a conversation belongs to a
\* participant of that booking: the booking exists and the channel's
\* websocket_users entry is the booking's user_id or its guide_id.
C28_RegisteredAreParticipants ==
  \A b \in DOMAIN active_connections :
    \A w \in active_connections[b] :
      LET booking == get_booking_by_id(b) IN
      /\ booking # <<>>
      /\ w \in DOMAIN websocket_users
      /\ websocket_users[w] \in {booking[1].user_id, booking[1].guide_id}

\* The tourist and the guide of one booking are both registered for it after
\* the attempt of a user who takes no part in a booking was refused.
C28_Witness ==
  /\ \E w, x \in Registered :
       /\ ws[w].booking_id = ws[x].booking_id
       /\ websocket_users[w] = BookingsTable[ws[w].booking_id].user_id
       /\ websocket_users[x] = BookingsTable[ws[x].booking_id].guide_id
  /\ \E y \in Channels :
       /\ ws[y].pc = "done" /\ ws[y].closeReason = "Access denied"
       /\ y \notin Registered

\* C29: a send_to_booking call during whose suspended send another task
\* registered or unregistered a channel of its conversation does not raise,
\* and when it has ended every non-excluded channel that stayed registered
\* (and reachable) throughout the call has received the payload.
C29_BroadcastSurvivesRegistryChange ==
  \A p \in Procs :
    (bc[p].changed \/ bc[p].detached)
    => /\ bc[p].st # "raised"
       /\ Ended(p) => StayedLive(p) \ {bc[p].exclude} \subseteq bc[p].delivered

\* C30: what send_message answers agrees with the store: a request answered
\* with an error persisted no message, and a request whose message was
\* committed answers 201 with that message, which is in the store.
C30_ResponseAgreesWithStore ==
  \A r \in Requests :
    rq[r].pc \in {"respond", "done"}
    => /\ rq[r].status # 201 => rq[r].id = None
       /\ rq[r].id # None
            => /\ rq[r].status = 201
               /\ \E i \in 1..Len(messages) : messages[i].id = rq[r].id
       /\ rq[r].id = None => rq[r].status = 400

====
